---- MODULE Spec2Model ----
(***************************************************************************)
(* Terminal_Networking / Pilot_Networking of core/networking.py: the       *)
(* outbox + retry timers + RECVD acknowledgments, the INIT discovery       *)
(* handshake, and the three receive paths, as one state machine.  Every    *)
(* Python thread (one per received message, one per timer) is a little     *)
(* process whose steps are the places where the interpreter may switch     *)
(* threads between two accesses of the shared dicts.                       *)
(***************************************************************************)
EXTENDS Integers, Sequences, FiniteSets, Bags, TLC

VARIABLES
    msg_counter,  \* self.msg_counter: the next value of count()
    outbox,       \* self.outbox: id string -> message dict
    timers,       \* self.timers: id string -> state of the Timer object stored there
    orphans,      \* bag of id strings: started Timers no longer referenced by self.timers
    subscribers,  \* self.subscribers
    pubT,         \* threads inside publish(): id string -> [pc, message]
    repT,         \* threads inside p_repeat(): id string -> [pc, frame]
    recvdT,       \* bag of threads inside m_recvd(): [v, pc]
    aliveT,       \* bag of started l_alive threads: the value each was given
    initT,        \* the thread inside m_init()
    pilots,       \* names of the Pilot nodes that are connected
    inbox,        \* Pilot name -> frames delivered to its SUB socket, in order
    delivered,    \* number of frames the PUB socket has delivered so far
    pend,         \* Pilot name -> bag of started threads (handler, RECVD push)
    funnel,       \* Pilot name -> payloads pushed to the Terminal's PULL socket
    tx,           \* history: bag of id strings, one copy per transmission
    wire,         \* history: id string -> the message dicts transmitted, in order
    rx,           \* history: bag of <<pilot, id>>, one copy per acknowledgeable reception
    got,          \* history: set of <<pilot, key>> of envelopes whose handler was started
    acks,         \* history: bag of <<pilot, id>>, one copy per RECVD pushed
    dead,         \* history: bag of addresses, one copy per DEAD report published
    inputs,       \* history: number of payloads handled by handle_message
    hist,         \* history: set of events (removals, failures, handled ALIVEs, ...)
    errs          \* history: set of exceptions raised, with the place that raised them

vars == <<msg_counter, outbox, timers, orphans, subscribers, pubT, repT, recvdT,
          aliveT, initT, pilots, inbox, delivered, pend, funnel, tx, wire, rx, got,
          acks, dead, inputs, hist, errs>>

termVars == <<msg_counter, outbox, timers, orphans, subscribers>>
threadVars == <<pubT, repT, recvdT, aliveT, initT>>
pilotVars == <<inbox, delivered, pend, funnel>>
histVars == <<tx, wire, rx, got, acks, dead, inputs, hist, errs>>

-----------------------------------------------------------------------------
(* Bounds of the model *)

\* ids that publish() may allocate in one run
MaxMsgs == 1
\* frames the lossy PUB socket delivers in one run; it drops the rest
MaxDelivered == 1
\* payloads that enter from outside the two classes in one run
MaxInputs == 3

(* Program constants *)

\* self.outbox[message_id]['ttl'] = 5
InitialTtl == 5
\* for i in range(5): broadcast PING
BroadcastRounds == 5
\* for i in range(5): directed PINGs
DirectedRounds == 5

-----------------------------------------------------------------------------
(* Python strings that the code iterates, slices or compares are sequences *)
(* of characters; message keys are atomic.                                 *)

A == <<"A">>
B == <<"B">>
AB == <<"A", "B">>
\* b'X', the filter every Pilot subscribes to
X == <<"X">>
\* 'T', the address observer notifications are published to
T == <<"T">>
\* ''
Empty == <<>>

Names == {A, B, AB}

Digits == <<"0", "1", "2", "3", "4", "5", "6", "7", "8", "9">>

RECURSIVE Str(_)
\* str(n) of a non-negative int
Str(n) == IF n < 10 THEN <<Digits[n + 1]>>
          ELSE Str(n \div 10) \o <<Digits[(n % 10) + 1]>>

IdStrs == {Str(n) : n \in 0..(MaxMsgs - 1)}

\* set(value) / set.update(value) over a string: its characters
Chars(s) == {<<s[i]>> : i \in 1..Len(s)}

\* d[k] = v on a dict
Put(d, k, v) == [x \in DOMAIN d \cup {k} |-> IF x = k THEN v ELSE d[x]]

\* del d[k]
Del(d, k) == [x \in DOMAIN d \ {k} |-> d[x]]

\* all(i in d.keys() for i in ks)
HasAll(d, ks) == ks \subseteq DOMAIN d

(* json: a payload is a dict that was json.dumps'ed `depth` times.  depth 0 *)
(* is the dict itself, depth >= 1 is a (unicode) string.                    *)
Obj(d) == [depth |-> 0, body |-> d]
Dumps(p) == [p EXCEPT !.depth = @ + 1]
Loads(p) == [p EXCEPT !.depth = @ - 1]
IsStr(p) == p.depth >= 1

\* a ZMQ SUBSCRIBE filter matches the frames it is a prefix of
Matches(filter, target) ==
    /\ Len(filter) <= Len(target)
    /\ SubSeq(target, 1, Len(filter)) = filter

\* the two setsockopt(zmq.SUBSCRIBE, ...) of a Pilot
Subscribed(p, target) == Matches(p, target) \/ Matches(X, target)

\* the handler tables
TerminalMessages == {"PING", "INIT", "START", "CHANGE", "STOP", "STOPALL", "RECVD"}
TerminalListens == {"DATA", "ALIVE", "EVENT", "STATE", "RECVD"}
PilotListens == {"PING", "START", "STOP", "CHANGE"}

One(e) == SetToBag({e})

-----------------------------------------------------------------------------
(* The PUB socket: send_multipart([bytes(target), payload]).  Each connected *)
(* Pilot whose filter matches gets the frame or, the transport being       *)
(* lossy, does not.                                                        *)

Deliver(target, payload, rcv) ==
    /\ delivered + Cardinality(rcv) <= MaxDelivered
    /\ delivered' = delivered + Cardinality(rcv)
    /\ inbox' = [p \in DOMAIN inbox |->
                  IF p \in rcv
                  THEN Append(inbox[p], [target |-> target, payload |-> payload])
                  ELSE inbox[p]]

Receivers(target) == {p \in pilots : Subscribed(p, target)}

\* a transmission of an outbox message: the frame, and the history of it
Transmit(id, message, rcv) ==
    /\ Deliver(message["target"], Dumps(Obj(message)), rcv)
    /\ tx' = tx (+) One(id)
    /\ wire' = [wire EXCEPT ![id] = Append(@, message)]

-----------------------------------------------------------------------------
(* publish(target, message) *)

\* lines 142-153: number the message, stash it, check its format
PublishBegin(target, message) ==
    LET msg_num == Str(msg_counter)
        stamped == Put(Put(message, "id", msg_num), "target", target)
    IN  /\ msg_counter' = msg_counter + 1
        /\ outbox' = Put(outbox, msg_num, stamped)
        /\ pubT' = IF HasAll(stamped, {"key", "value"})
                   THEN Put(pubT, msg_num, [pc |-> "send", message |-> stamped])
                   ELSE pubT

\* line 158: self.publisher.send_multipart(...) of the caller's message dict
PublishSend(id) ==
    /\ id \in DOMAIN pubT
    /\ pubT[id].pc = "send"
    /\ \E rcv \in SUBSET Receivers(pubT[id].message["target"]) :
          Transmit(id, pubT[id].message, rcv)
    /\ pubT' = [pubT EXCEPT ![id].pc = "arm"]
    /\ UNCHANGED <<termVars, repT, recvdT, aliveT, initT, pilots, pend, funnel,
                   rx, got, acks, dead, inputs, hist, errs>>

\* self.timers[id] = threading.Timer(...); .start()
Arm(id) ==
    /\ timers' = Put(timers, id, "armed")
    /\ orphans' = IF id \in DOMAIN timers /\ timers[id] = "armed"
                  THEN orphans (+) One(id) ELSE orphans

\* lines 161-162
PublishArm(id) ==
    /\ id \in DOMAIN pubT
    /\ pubT[id].pc = "arm"
    /\ Arm(id)
    /\ pubT' = Del(pubT, id)
    /\ UNCHANGED <<msg_counter, outbox, subscribers, repT, recvdT, aliveT, initT,
                   pilots, pilotVars, histVars>>

-----------------------------------------------------------------------------
(* p_repeat(message_id), run by a Timer thread *)

\* a p_repeat without the membership test of lines 293-295
TimerFireUnchecked(id) ==
    /\ id \in DOMAIN timers
    /\ timers[id] = "armed"
    /\ timers' = [timers EXCEPT ![id] = "fired"]
    /\ repT' = Put(repT, id, [pc |-> "ttl", message |-> <<>>])
    /\ UNCHANGED <<msg_counter, outbox, orphans, subscribers, pubT, recvdT, aliveT,
                   initT, pilots, pilotVars, histVars>>

\* a periodic timer: it stays armed after it has fired
TimerFireRepeating(id) ==
    /\ id \in DOMAIN timers
    /\ timers[id] = "armed"
    /\ repT' = IF id \in DOMAIN outbox
               THEN Put(repT, id, [pc |-> "ttl", message |-> <<>>])
               ELSE repT
    /\ UNCHANGED <<msg_counter, outbox, timers, orphans, subscribers, pubT, recvdT,
                   aliveT, initT, pilots, pilotVars, histVars>>

\* the Timer stored in self.timers fires; lines 293-295
TimerFire(id) ==
    /\ id \in DOMAIN timers
    /\ timers[id] = "armed"
    /\ timers' = [timers EXCEPT ![id] = "fired"]
    /\ repT' = IF id \in DOMAIN outbox
               THEN Put(repT, id, [pc |-> "ttl", message |-> <<>>])
               ELSE repT
    /\ UNCHANGED <<msg_counter, outbox, orphans, subscribers, pubT, recvdT, aliveT,
                   initT, pilots, pilotVars, histVars>>

\* a retry budget that also counts the first send
NextTtlCountingFirstSend(message) ==
    IF "ttl" \in DOMAIN message THEN message["ttl"] - 1 ELSE InitialTtl - 1

\* a retry budget that starts one higher
NextTtlOneMore(message) ==
    IF "ttl" \in DOMAIN message THEN message["ttl"] - 1 ELSE InitialTtl + 1

\* lines 298-301: if 'ttl' in ...: ttl - 1  else: 5
NextTtl(message) ==
    IF "ttl" \in DOMAIN message THEN message["ttl"] - 1 ELSE InitialTtl

\* lines 298-315, up to the evaluation of send_multipart's arguments; every
\* self.outbox[message_id] raises KeyError once the entry is gone
PRepeatTtl(id) ==
    /\ id \in DOMAIN repT
    /\ repT[id].pc = "ttl"
    /\ IF id \notin DOMAIN outbox
       THEN /\ errs' = errs \cup {[in |-> "p_repeat", err |-> "KeyError", of |-> id]}
            /\ repT' = Del(repT, id)
            /\ UNCHANGED <<outbox, hist>>
       ELSE LET m == Put(outbox[id], "ttl", NextTtl(outbox[id]))
            IN  IF m["ttl"] <= 0
                THEN /\ outbox' = Del(outbox, id)
                     /\ hist' = hist \cup {[ev |-> "failed", of |-> id]}
                     /\ repT' = Del(repT, id)
                     /\ UNCHANGED errs
                ELSE /\ outbox' = Put(outbox, id, m)
                     /\ repT' = Put(repT, id, [pc |-> "send", message |-> m])
                     /\ UNCHANGED <<hist, errs>>
    /\ UNCHANGED <<msg_counter, timers, orphans, subscribers, pubT, recvdT, aliveT,
                   initT, pilots, pilotVars, tx, wire, rx, got, acks, dead, inputs>>

\* line 315: the call of send_multipart with the arguments already evaluated
PRepeatSend(id) ==
    /\ id \in DOMAIN repT
    /\ repT[id].pc = "send"
    /\ \E rcv \in SUBSET Receivers(repT[id].message["target"]) :
          Transmit(id, repT[id].message, rcv)
    /\ repT' = [repT EXCEPT ![id].pc = "arm"]
    /\ UNCHANGED <<termVars, pubT, recvdT, aliveT, initT, pilots, pend, funnel,
                   rx, got, acks, dead, inputs, hist, errs>>

\* lines 318-319
PRepeatArm(id) ==
    /\ id \in DOMAIN repT
    /\ repT[id].pc = "arm"
    /\ Arm(id)
    /\ repT' = Del(repT, id)
    /\ UNCHANGED <<msg_counter, outbox, subscribers, pubT, recvdT, aliveT, initT,
                   pilots, pilotVars, histVars>>

-----------------------------------------------------------------------------
(* m_recvd(target, value), run by a thread of its own per RECVD *)

\* m_recvd without the membership test of line 265
MRecvdCheckUnguarded(v) ==
    /\ BagIn([v |-> v, pc |-> "chk"], recvdT)
    /\ recvdT' = (recvdT (-) One([v |-> v, pc |-> "chk"])) (+) One([v |-> v, pc |-> "del"])
    /\ UNCHANGED <<termVars, pubT, repT, aliveT, initT, pilots, pilotVars, histVars>>

\* line 265: if value in self.outbox.keys()
MRecvdCheck(v) ==
    /\ BagIn([v |-> v, pc |-> "chk"], recvdT)
    /\ recvdT' = (recvdT (-) One([v |-> v, pc |-> "chk"]))
                 (+) One([v |-> v, pc |-> IF v \in DOMAIN outbox THEN "del" ELSE "can"])
    /\ UNCHANGED <<termVars, pubT, repT, aliveT, initT, pilots, pilotVars, histVars>>

\* line 266: del self.outbox[value]
MRecvdDel(v) ==
    /\ BagIn([v |-> v, pc |-> "del"], recvdT)
    /\ IF v \in DOMAIN outbox
       THEN /\ outbox' = Del(outbox, v)
            /\ recvdT' = (recvdT (-) One([v |-> v, pc |-> "del"]))
                         (+) One([v |-> v, pc |-> "can"])
            /\ hist' = hist \cup {[ev |-> "acked", of |-> v, to |-> outbox[v]["target"]]}
            /\ UNCHANGED errs
       ELSE /\ errs' = errs \cup {[in |-> "m_recvd", err |-> "KeyError", of |-> v]}
            /\ recvdT' = recvdT (-) One([v |-> v, pc |-> "del"])
            /\ UNCHANGED <<outbox, hist>>
    /\ UNCHANGED <<msg_counter, timers, orphans, subscribers, pubT, repT, aliveT,
                   initT, pilots, pilotVars, tx, wire, rx, got, acks, dead, inputs>>

\* lines 269-272: cancel the Timer stored under value, if any
MRecvdCancel(v) ==
    /\ BagIn([v |-> v, pc |-> "can"], recvdT)
    /\ timers' = IF v \in DOMAIN timers /\ timers[v] = "armed"
                 THEN [timers EXCEPT ![v] = "cancelled"] ELSE timers
    /\ recvdT' = recvdT (-) One([v |-> v, pc |-> "can"])
    /\ hist' = hist \cup {[ev |-> "confirmed", of |-> v]}
    /\ UNCHANGED <<msg_counter, outbox, orphans, subscribers, pubT, repT, aliveT,
                   initT, pilots, pilotVars, tx, wire, rx, got, acks, dead, inputs, errs>>

-----------------------------------------------------------------------------
(* Pilot_Networking *)

\* push(key, target='', value=''): send_json(json.dumps({...}))
PushPayload(key, value) ==
    Dumps(Dumps(Obj([key |-> key, target |-> Empty, value |-> value])))

\* the handler thread of lines 407-409; l_start, l_stop and l_change are `pass`
\* (lines 437-444), so only l_ping has anything left to do once started
Handler(d) ==
    IF d["key"] = "PING" THEN One([t |-> "PING", v |-> d["value"]]) ELSE EmptyBag

\* an acknowledgment that echoes the value of the envelope instead of its id
RecvdThreadEchoingValue(d) == One([t |-> "RECVD", v |-> d["value"]])

\* the thread of lines 412-413: push(key='RECVD', value=msg['id'])
RecvdThread(d) == One([t |-> "RECVD", v |-> d["id"]])

\* handle_listen(msg) of a Pilot, lines 396-413, on the frame at the head of
\* its SUB socket
PilotHandleListen(p) ==
    /\ p \in pilots
    /\ inbox[p] # <<>>
    /\ inbox' = [inbox EXCEPT ![p] = Tail(@)]
    /\ LET msg == Loads(Head(inbox[p]).payload)
           d == msg.body
       IN  IF IsStr(msg)
           THEN /\ errs' = errs \cup {[in |-> "Pilot.handle_listen",
                                       err |-> "AttributeError", of |-> <<"keys">>]}
                /\ UNCHANGED <<pend, rx, got, hist>>
           ELSE IF ~HasAll(d, {"key", "value"})
           THEN /\ hist' = hist \cup {[ev |-> "dropped", of |-> <<"Pilot.handle_listen">>]}
                /\ UNCHANGED <<pend, rx, got, errs>>
           ELSE IF d["key"] \notin PilotListens
           THEN /\ errs' = errs \cup {[in |-> "Pilot.handle_listen",
                                       err |-> "KeyError", of |-> <<"listens">>]}
                /\ UNCHANGED <<pend, rx, got, hist>>
           ELSE /\ got' = got \cup {<<p, d["key"]>>}
                /\ IF "id" \in DOMAIN d
                   THEN /\ pend' = [pend EXCEPT ![p] =
                                      (@ (+) Handler(d)) (+) RecvdThread(d)]
                        /\ rx' = rx (+) One(<<p, d["id"]>>)
                        /\ UNCHANGED errs
                   ELSE /\ pend' = [pend EXCEPT ![p] = @ (+) Handler(d)]
                        /\ errs' = errs \cup {[in |-> "Pilot.handle_listen",
                                               err |-> "KeyError", of |-> <<"id">>]}
                        /\ UNCHANGED rx
                /\ UNCHANGED hist
    /\ UNCHANGED <<termVars, threadVars, pilots, delivered, funnel, tx, wire, acks,
                   dead, inputs>>

\* a thread started by handle_listen runs: the RECVD push (line 412) or l_ping
\* (lines 433-435)
PilotThread(p, th) ==
    /\ p \in pilots
    /\ BagIn(th, pend[p])
    /\ pend' = [pend EXCEPT ![p] = @ (-) One(th)]
    /\ funnel' = [funnel EXCEPT ![p] =
                    IF th.t = "RECVD" THEN Append(@, PushPayload("RECVD", th.v))
                    ELSE Append(@, PushPayload("ALIVE", p))]
    /\ acks' = IF th.t = "RECVD" THEN acks (+) One(<<p, th.v>>) ELSE acks
    /\ hist' = IF th.t = "RECVD" THEN hist ELSE hist \cup {[ev |-> "replied", of |-> p]}
    /\ UNCHANGED <<termVars, threadVars, pilots, inbox, delivered, tx, wire, rx, got,
                   dead, inputs, errs>>

-----------------------------------------------------------------------------
(* Terminal_Networking: the receive paths *)

\* a decoder that stops after the first json.loads
DecodeOnce(payload) == Loads(payload)

\* json.loads(msg[0]); if isinstance(msg, unicode): json.loads(msg)
Decode(payload) ==
    LET once == Loads(payload)
    IN  IF IsStr(once) THEN Loads(once) ELSE once

\* handle_listen(msg), lines 166-181: what it does to the thread pools and
\* what it raises, for one payload
ListenDispatch(payload) ==
    LET msg == Decode(payload)
        d == msg.body
    IN  IF IsStr(msg)
        THEN /\ errs' = errs \cup {[in |-> "handle_listen",
                                    err |-> "AttributeError", of |-> <<"keys">>]}
             /\ UNCHANGED <<recvdT, aliveT, hist>>
        ELSE IF ~HasAll(d, {"key", "value", "target"})
        THEN /\ hist' = hist \cup {[ev |-> "dropped", of |-> <<"handle_listen">>]}
             /\ UNCHANGED <<recvdT, aliveT, errs>>
        ELSE IF d["key"] \notin TerminalListens
        THEN /\ errs' = errs \cup {[in |-> "handle_listen",
                                    err |-> "KeyError", of |-> <<"listens">>]}
             /\ UNCHANGED <<recvdT, aliveT, hist>>
        ELSE /\ recvdT' = IF d["key"] = "RECVD"
                          THEN recvdT (+) One([v |-> d["value"], pc |-> "chk"])
                          ELSE recvdT
             /\ aliveT' = IF d["key"] = "ALIVE"
                          THEN aliveT (+) One([v |-> d["value"], pc |-> "upd"])
                          ELSE aliveT
             /\ hist' = hist \cup {[ev |-> "listen", of |-> <<d["key"]>>]}
                              \cup (IF d["key"] = "RECVD"
                                    THEN {[ev |-> "recvd", of |-> d["value"]]} ELSE {})
             /\ UNCHANGED errs

\* a dispatcher that calls the handler itself: it takes the next payload only
\* when no handler it called is still running
HandleListenInline(p) ==
    /\ aliveT = EmptyBag
    /\ recvdT = EmptyBag
    /\ p \in pilots
    /\ funnel[p] # <<>>
    /\ funnel' = [funnel EXCEPT ![p] = Tail(@)]
    /\ ListenDispatch(Head(funnel[p]))
    /\ UNCHANGED <<termVars, pubT, repT, initT, pilots, inbox, delivered, pend,
                   tx, wire, rx, got, acks, dead, inputs>>

\* the listener's on_recv callback for the next payload a Pilot pushed
HandleListen(p) ==
    /\ p \in pilots
    /\ funnel[p] # <<>>
    /\ funnel' = [funnel EXCEPT ![p] = Tail(@)]
    /\ ListenDispatch(Head(funnel[p]))
    /\ UNCHANGED <<termVars, pubT, repT, initT, pilots, inbox, delivered, pend,
                   tx, wire, rx, got, acks, dead, inputs>>

\* l_alive, line 279: self.subscribers.update(value)
LAliveUpdate(v) ==
    /\ BagIn([v |-> v, pc |-> "upd"], aliveT)
    /\ subscribers' = subscribers \cup Chars(v)
    /\ aliveT' = (aliveT (-) One([v |-> v, pc |-> "upd"]))
                 (+) One([v |-> v, pc |-> "pub"])
    /\ hist' = hist \cup {[ev |-> "alive", of |-> v]}
    /\ UNCHANGED <<msg_counter, outbox, timers, orphans, pubT, repT, recvdT, initT,
                   pilots, pilotVars, tx, wire, rx, got, acks, dead, inputs, errs>>

\* an l_alive that updates the registry and tells nobody
LAliveSilent(v) ==
    /\ BagIn([v |-> v, pc |-> "pub"], aliveT)
    /\ aliveT' = aliveT (-) One([v |-> v, pc |-> "pub"])
    /\ UNCHANGED <<termVars, pubT, repT, recvdT, initT, pilots, pilotVars, histVars>>

\* l_alive, line 282: self.publish('T', {'key':'ALIVE','value':value})
LAlivePublish(v) ==
    /\ BagIn([v |-> v, pc |-> "pub"], aliveT)
    /\ msg_counter < MaxMsgs
    /\ aliveT' = aliveT (-) One([v |-> v, pc |-> "pub"])
    /\ PublishBegin(T, [key |-> "ALIVE", value |-> v])
    /\ UNCHANGED <<timers, orphans, subscribers, repT, recvdT, initT,
                   pilots, pilotVars, histVars>>

\* handle_message(msg), lines 184-201, with the handler thread's first step:
\* m_ping's publish (line 210), m_init's entry (lines 217-220), m_recvd's start.
\* The format check at line 194 only warns; line 198 then reads the fields.
HandleMessage(payload) ==
    LET msg == Decode(payload)
        d == msg.body
        raise(e, what) ==
            /\ errs' = errs \cup {[in |-> "handle_message", err |-> e, of |-> <<what>>]}
            /\ UNCHANGED <<termVars, threadVars, hist>>
    IN  /\ IF IsStr(msg) THEN raise("AttributeError", "keys")
           ELSE IF "key" \notin DOMAIN d THEN raise("KeyError", "key")
           ELSE IF "target" \notin DOMAIN d THEN raise("KeyError", "target")
           ELSE IF "value" \notin DOMAIN d THEN raise("KeyError", "value")
           ELSE IF d["key"] \notin TerminalMessages THEN raise("KeyError", "messages")
           ELSE /\ hist' = hist \cup {[ev |-> "message", of |-> <<d["key"]>>]}
                               \cup (IF d["key"] = "RECVD"
                                     THEN {[ev |-> "recvd", of |-> d["value"]]} ELSE {})
                /\ UNCHANGED errs
                /\ CASE d["key"] = "PING" ->
                          /\ msg_counter < MaxMsgs
                          /\ PublishBegin(d["target"], [key |-> "PING", value |-> Empty])
                          /\ UNCHANGED <<timers, orphans, subscribers, repT, recvdT,
                                         aliveT, initT>>
                     [] d["key"] = "INIT" ->
                          /\ initT.pc \in {"idle", "done"}
                          /\ initT' = [pc |-> "bcast", i |-> 0,
                                       pis |-> {d["value"][k] : k \in DOMAIN d["value"]},
                                       todo |-> {}, cur |-> Empty, n |-> initT.n + 1,
                                       heard |-> {}, dead0 |-> dead]
                          /\ UNCHANGED <<termVars, pubT, repT, recvdT, aliveT>>
                     [] d["key"] = "RECVD" ->
                          /\ recvdT' = recvdT (+) One([v |-> d["value"], pc |-> "chk"])
                          /\ UNCHANGED <<termVars, pubT, repT, aliveT, initT>>
                     [] OTHER -> UNCHANGED <<termVars, threadVars>>
        /\ inputs' = inputs + 1
        /\ UNCHANGED <<pilots, pilotVars, tx, wire, rx, got, acks, dead>>

-----------------------------------------------------------------------------
(* m_init(target, value) *)

\* history kept in the m_init thread: the addresses whose ALIVE l_alive has
\* handled (line 279) by the time m_init reads self.subscribers for the last time
AliveHandled == {e.of : e \in {x \in hist : x.ev = "alive"}}

\* json.dumps({'key':'PING', 'value':''}), sent without id or outbox entry
DiscoveryPing == Dumps(Obj([key |-> "PING", value |-> Empty]))

initRest == <<termVars, pubT, repT, recvdT, aliveT, pilots, pend, funnel,
              tx, wire, rx, got, acks, dead, inputs, errs>>

\* lines 220-222: one broadcast PING to b'X', then sleep(1)
MInitBroadcast ==
    /\ initT.pc = "bcast"
    /\ initT.i < BroadcastRounds
    /\ \E rcv \in SUBSET Receivers(X) : Deliver(X, DiscoveryPing, rcv)
    /\ initT' = [initT EXCEPT !.i = @ + 1]
    /\ hist' = hist \cup {[ev |-> "bping", n |-> initT.n, round |-> initT.i]}
    /\ UNCHANGED initRest

\* lines 225-227: pis = set(value); anything missing?
MInitCheck ==
    /\ initT.pc = "bcast"
    /\ initT.i = BroadcastRounds
    /\ initT' = IF initT.pis \ subscribers = {}
                THEN [initT EXCEPT !.pc = "done", !.heard = AliveHandled]
                ELSE [initT EXCEPT !.pc = "round", !.i = 0]
    /\ hist' = hist \cup {[ev |-> "checked", n |-> initT.n, pis |-> initT.pis,
                            reg |-> subscribers]}
    /\ UNCHANGED <<inbox, delivered, initRest>>

\* directed rounds that ping every expected address, registered or not
MInitAwolPingingAll ==
    /\ initT.pc = "round"
    /\ initT' = IF initT.i < DirectedRounds
                THEN [initT EXCEPT !.todo = initT.pis, !.pc = "ping"]
                ELSE [initT EXCEPT !.todo = initT.pis \ subscribers, !.pc = "report",
                                   !.heard = AliveHandled]
    /\ hist' = IF initT.i < DirectedRounds
               THEN hist \cup {[ev |-> "round", n |-> initT.n, round |-> initT.i,
                                pis |-> initT.pis, reg |-> subscribers]}
               ELSE hist
    /\ UNCHANGED <<inbox, delivered, initRest>>

\* line 229 (awol_pis of one directed round) and, after the last round, line 235
MInitAwol ==
    /\ initT.pc = "round"
    /\ initT' = IF initT.i < DirectedRounds
                THEN [initT EXCEPT !.todo = initT.pis \ subscribers, !.pc = "ping"]
                ELSE [initT EXCEPT !.todo = initT.pis \ subscribers, !.pc = "report",
                                   !.heard = AliveHandled]
    /\ hist' = IF initT.i < DirectedRounds
               THEN hist \cup {[ev |-> "round", n |-> initT.n, round |-> initT.i,
                                pis |-> initT.pis, reg |-> subscribers]}
               ELSE hist
    /\ UNCHANGED <<inbox, delivered, initRest>>

\* lines 230-232: a directed PING per awol pi, then sleep(2)
MInitPing ==
    /\ initT.pc = "ping"
    /\ IF initT.todo = {}
       THEN /\ initT' = [initT EXCEPT !.pc = "round", !.i = @ + 1]
            /\ UNCHANGED <<inbox, delivered, hist>>
       ELSE \E p \in initT.todo :
              /\ \E rcv \in SUBSET Receivers(p) : Deliver(p, DiscoveryPing, rcv)
              /\ initT' = [initT EXCEPT !.todo = @ \ {p}]
              /\ hist' = hist \cup {[ev |-> "dping", n |-> initT.n,
                                      round |-> initT.i, to |-> p]}
    /\ UNCHANGED initRest

\* lines 236-238: publish('T', {'key':'DEAD','value':p}) per pi still awol; each
\* publish returns (its Timer started) before the next begins
MInitReport ==
    /\ initT.pc = "report"
    /\ initT.cur \notin DOMAIN pubT
    /\ IF initT.todo = {}
       THEN /\ initT' = [initT EXCEPT !.pc = "done"]
            /\ UNCHANGED <<msg_counter, outbox, pubT, dead>>
       ELSE /\ msg_counter < MaxMsgs
            /\ \E p \in initT.todo :
                 /\ PublishBegin(T, [key |-> "DEAD", value |-> p])
                 /\ dead' = dead (+) One(p)
                 /\ initT' = [initT EXCEPT !.todo = @ \ {p}, !.cur = Str(msg_counter)]
    /\ UNCHANGED <<timers, orphans, subscribers, repT, recvdT, aliveT, pilots,
                   pilotVars, tx, wire, rx, got, acks, inputs, hist, errs>>

-----------------------------------------------------------------------------
(* The state after construction (lines 98-105), no message sent yet *)

InitWith(connected) ==
    /\ msg_counter = 0
    /\ outbox = <<>>
    /\ timers = <<>>
    /\ orphans = EmptyBag
    /\ subscribers = {}
    /\ pubT = <<>>
    /\ repT = <<>>
    /\ recvdT = EmptyBag
    /\ aliveT = EmptyBag
    /\ initT = [pc |-> "idle", i |-> 0, pis |-> {}, todo |-> {}, cur |-> Empty, n |-> 0,
                heard |-> {}, dead0 |-> EmptyBag]
    /\ pilots = connected
    /\ inbox = [p \in Names |-> <<>>]
    /\ delivered = 0
    /\ pend = [p \in Names |-> EmptyBag]
    /\ funnel = [p \in Names |-> <<>>]
    /\ tx = EmptyBag
    /\ wire = [i \in IdStrs |-> <<>>]
    /\ rx = EmptyBag
    /\ got = {}
    /\ acks = EmptyBag
    /\ dead = EmptyBag
    /\ inputs = 0
    /\ hist = {}
    /\ errs = {}

-----------------------------------------------------------------------------
(* Reliable delivery: commands published to Pilots A and B *)

\* publish(target, message) called with a command for Pilots
SendReliable(target, message) ==
    /\ msg_counter < MaxMsgs
    /\ PublishBegin(target, message)
    /\ UNCHANGED <<timers, orphans, subscribers, repT, recvdT, aliveT, initT,
                   pilots, pilotVars, histVars>>

Commands == {[key |-> "START", value |-> Empty]}

Init == InitWith({A, B})

Next ==
    \/ \E t \in {X, A} : \E m \in Commands : SendReliable(t, m)
    \/ \E id \in IdStrs : PublishSend(id)
    \/ \E id \in IdStrs : PublishArm(id)
    \/ \E id \in IdStrs : TimerFire(id)
    \/ \E id \in IdStrs : PRepeatTtl(id)
    \/ \E id \in IdStrs : PRepeatSend(id)
    \/ \E id \in IdStrs : PRepeatArm(id)
    \/ \E p \in Names : PilotHandleListen(p)
    \/ \E p \in Names : \E th \in BagToSet(pend[p]) : PilotThread(p, th)
    \/ \E p \in Names : HandleListen(p)
    \/ \E id \in IdStrs : MRecvdCheck(id)
    \/ \E id \in IdStrs : MRecvdDel(id)
    \/ \E id \in IdStrs : MRecvdCancel(id)

Spec == Init /\ [][Next]_vars

\* the Python scheduler runs every started thread, and, as C1 assumes, every
\* armed Timer fires
Fairness ==
    \A id \in IdStrs :
        /\ WF_vars(PublishSend(id))
        /\ WF_vars(PublishArm(id))
        /\ WF_vars(TimerFire(id))
        /\ WF_vars(PRepeatTtl(id))
        /\ WF_vars(PRepeatSend(id))
        /\ WF_vars(PRepeatArm(id))

FairSpec == Init /\ [][Next]_vars /\ Fairness

-----------------------------------------------------------------------------
(* Vocabulary of the claims *)

Sent(id) == CopiesIn(id, tx)
Failed(id) == [ev |-> "failed", of |-> id] \in hist
\* a RECVD carrying id has reached the Terminal and m_recvd was started for it
RecvdStarted(id) == [ev |-> "recvd", of |-> id] \in hist
\* m_recvd(id) has run to its last line
RecvdCompleted(id) == [ev |-> "confirmed", of |-> id] \in hist
\* m_recvd removed the entry of id, which was addressed to `to`
AckedTo(id, to) == [ev |-> "acked", of |-> id, to |-> to] \in hist
TimerArmed(id) ==
    \/ id \in DOMAIN timers /\ timers[id] = "armed"
    \/ CopiesIn(id, orphans) > 0
\* Pilot p was delivered a transmission of id
HasReceived(p, id) ==
    \/ CopiesIn(<<p, id>>, rx) > 0
    \/ \E k \in DOMAIN inbox[p] :
         LET d == Loads(inbox[p][k].payload).body
         IN  "id" \in DOMAIN d /\ d["id"] = id

-----------------------------------------------------------------------------
\* C1: a published command whose id is never acknowledged is transmitted
\* exactly 6 times (never more, and eventually 6); the Timer firing after the
\* 6th transmission sends nothing, reports the failure, removes the entry and
\* leaves no Timer armed for the id.
C1_SixTransmissions ==
    /\ [](\A id \in IdStrs :
            /\ Sent(id) <= 6
            /\ Failed(id) => /\ Sent(id) = 6
                             /\ id \notin DOMAIN outbox
                             /\ ~TimerArmed(id)
                             /\ id \notin DOMAIN repT)
    /\ \A id \in IdStrs :
         (Sent(id) >= 1) ~> (RecvdStarted(id) \/ (Failed(id) /\ Sent(id) = 6))

\* a command ran through its whole retry budget without any RECVD for it
C1_Witness ==
    \E id \in IdStrs : Failed(id) /\ ~RecvdStarted(id) /\ Sent(id) = 6

\* C2: once m_recvd(id) has completed, id is never transmitted again.
C2_NoSendAfterRecvd ==
    [][\A id \in IdStrs : RecvdCompleted(id) => CopiesIn(id, tx') = CopiesIn(id, tx)]_vars

\* C3: whenever m_recvd removes the entry of a command addressed to the
\* broadcast filter, every connected Pilot has received that command.
C3_BroadcastAtLeastOnce ==
    \A id \in IdStrs : AckedTo(id, X) => \A p \in pilots : HasReceived(p, id)

C5_NoRaceOnEntry ==
    \A e \in errs : e.in \notin {"m_recvd", "p_repeat"}

-----------------------------------------------------------------------------
(* Acknowledgments one after the other: RECVD messages on the local intake, *)
(* for ids in the outbox and for a value that is no id, each handled once   *)
(* the m_recvd thread before it has finished.                               *)

\* a string that str(int) never returns
NoId == <<"x">>

AckValues == IdStrs \cup {NoId}

RecvdMessage(v) == Dumps(Obj([key |-> "RECVD", target |-> Empty, value |-> v]))

NextAck ==
    \/ \E m \in Commands : SendReliable(X, m)
    \/ \E id \in IdStrs : PublishSend(id)
    \/ \E id \in IdStrs : PublishArm(id)
    \/ \E id \in IdStrs : TimerFire(id)
    \/ \E id \in IdStrs : PRepeatTtl(id)
    \/ \E id \in IdStrs : PRepeatSend(id)
    \/ \E id \in IdStrs : PRepeatArm(id)
    \/ \E v \in AckValues :
          /\ inputs < MaxInputs
          /\ recvdT = EmptyBag
          /\ HandleMessage(RecvdMessage(v))
    \/ \E v \in AckValues : MRecvdCheck(v)
    \/ \E v \in AckValues : MRecvdDel(v)
    \/ \E v \in AckValues : MRecvdCancel(v)

InitAck == InitWith({})

SpecAck == InitAck /\ [][NextAck]_vars

\* C6: m_recvd(v) for a v that is not (or no longer) in the outbox raises
\* nothing and removes nothing: its membership test sends it past the del, and
\* neither that step nor the cancel step changes the outbox, the registry or
\* the Timer of any other id.
C6_RecvdIdempotent ==
    [][\A v \in AckValues :
         LET others == /\ outbox' = outbox
                       /\ subscribers' = subscribers
                       /\ errs' = errs
                       /\ orphans' = orphans
                       /\ DOMAIN timers' = DOMAIN timers
                       /\ \A j \in DOMAIN timers \ {v} : timers'[j] = timers[j]
             at(pc, bag) == CopiesIn([v |-> v, pc |-> pc], bag)
         IN  /\ (MRecvdCheck(v) /\ v \notin DOMAIN outbox)
                  => others /\ timers' = timers /\ at("can", recvdT') = at("can", recvdT) + 1
             /\ MRecvdCancel(v)
                  => others /\ at("can", recvdT') = at("can", recvdT) - 1]_vars

\* a second m_recvd for an id that a first, completed one removed has passed
\* its membership test, and an m_recvd for a value that is no id has completed
C6_Witness ==
    /\ RecvdCompleted(NoId)
    /\ \E id \in IdStrs :
         /\ AckedTo(id, X)
         /\ RecvdCompleted(id)
         /\ BagIn([v |-> id, pc |-> "can"], recvdT)

-----------------------------------------------------------------------------
(* Discovery: INIT messages on the local intake, Pilots that answer PINGs.  *)
(* The retry cycle of the ALIVE and DEAD notifications (p_repeat) is left   *)
(* to Spec: it reads and writes only outbox and timers, which m_init and    *)
(* l_alive never read.                                                      *)

ExpectedLists == {<<A>>, <<AB>>, <<A, AB>>}

InitMessage(expected) == Dumps(Obj([key |-> "INIT", target |-> Empty, value |-> expected]))

InitDisc == \E connected \in {{A}, {AB}, {A, AB}} : InitWith(connected)

NextDisc ==
    \/ \E expected \in ExpectedLists :
          /\ inputs < MaxInputs
          /\ HandleMessage(InitMessage(expected))
    \/ MInitBroadcast
    \/ MInitCheck
    \/ MInitAwol
    \/ MInitPing
    \/ MInitReport
    \/ \E p \in Names : PilotHandleListen(p)
    \/ \E p \in Names : \E th \in BagToSet(pend[p]) : PilotThread(p, th)
    \/ \E p \in Names : HandleListen(p)
    \/ \E v \in Names : LAliveUpdate(v)
    \/ \E v \in Names : LAlivePublish(v)
    \/ \E id \in IdStrs : PublishSend(id)
    \/ \E id \in IdStrs : PublishArm(id)

SpecDisc == InitDisc /\ [][NextDisc]_vars

\* DEAD reports published for address a by the current invocation of m_init
DeadReports(a) == CopiesIn(a, dead) - CopiesIn(a, initT.dead0)
\* Pilot a has pushed an ALIVE
Replied(a) == [ev |-> "replied", of |-> a] \in hist

\* C7: when m_init ends, every expected address whose ALIVE was handled
\* before m_init last read the registry is in the registry, and no DEAD
\* report was published for it.
C7_HeardIsRegistered ==
    initT.pc = "done" =>
        \A a \in initT.pis \cap initT.heard : a \in subscribers /\ DeadReports(a) = 0

\* C8: when m_init ends, every expected address that never replied is not in
\* the registry and exactly one DEAD report was published for it; none is
\* published for an address that was not expected.
C8_SilentIsDeadOnce ==
    /\ initT.pc = "done" =>
          \A a \in initT.pis : ~Replied(a) => a \notin subscribers /\ DeadReports(a) = 1
    /\ \A a \in BagToSet(dead) : CopiesIn(a, dead) > CopiesIn(a, initT.dead0) => a \in initT.pis

\* C9: handling ALIVE with value a makes the registry the old registry plus a.
C9_AliveAddsAddress ==
    [][\A a \in Names : LAliveUpdate(a) => subscribers' = subscribers \cup {a}]_vars

-----------------------------------------------------------------------------
(* Decoding: payloads with and without the envelope fields on the three     *)
(* receive paths.  The keys are those of handlers that are `pass`.          *)

\* the dicts that have some of the fields of d
Lacking(d) == {[k \in ks |-> d[k]] : ks \in SUBSET DOMAIN d}

MessagePayloads ==
    {Dumps(Obj(d)) : d \in Lacking([key |-> "STOP", target |-> A, value |-> Empty])}

ListenPayloads ==
    {Dumps(Dumps(Obj(d))) : d \in Lacking([key |-> "DATA", target |-> Empty, value |-> Empty])}

PilotPayloads ==
    {Dumps(Obj(d)) : d \in Lacking([key |-> "STOP", value |-> Empty])}

\* self.listener.on_recv(self.handle_listen), line 74: the callback runs on a
\* payload pushed by a sender that is not a Pilot_Networking object
ListenInput(payload) ==
    /\ ListenDispatch(payload)
    /\ inputs' = inputs + 1
    /\ UNCHANGED <<termVars, pubT, repT, initT, pilots, pilotVars,
                   tx, wire, rx, got, acks, dead>>

\* self.subscriber.on_recv(self.handle_listen), line 364: a frame that matches
\* the Pilot's filters arrives from a publisher that is not publish()
PilotInput(p, payload) ==
    /\ p \in pilots
    /\ inbox' = [inbox EXCEPT ![p] = Append(@, [target |-> p, payload |-> payload])]
    /\ inputs' = inputs + 1
    /\ UNCHANGED <<termVars, threadVars, pilots, delivered, pend, funnel,
                   tx, wire, rx, got, acks, dead, hist, errs>>

NextDecode ==
    \/ \E payload \in MessagePayloads : inputs < MaxInputs /\ HandleMessage(payload)
    \/ \E payload \in ListenPayloads : inputs < MaxInputs /\ ListenInput(payload)
    \/ \E payload \in PilotPayloads : inputs < MaxInputs /\ PilotInput(A, payload)
    \/ PilotHandleListen(A)

InitDecode == InitWith({A})

SpecDecode == InitDecode /\ [][NextDecode]_vars

\* C10: a payload that lacks key, value or (on the Terminal) target is dropped
\* on every receive path: reading the missing field never raises.
C10_MalformedIsDropped ==
    \A e \in errs :
        ~(e.err = "KeyError" /\ e.of \in {<<"key">>, <<"value">>, <<"target">>})

-----------------------------------------------------------------------------
(* Dispatch: a PING on the local intake is published to Pilot A, which      *)
(* answers with ALIVE and RECVD; a STOP frame reaches A from elsewhere.     *)
(* The handler threads l_alive (Terminal) and l_ping (Pilot) are the        *)
(* handlers that never return: l_alive stops before line 282, and neither   *)
(* is ever promised a step.  The retry cycle of the PING (p_repeat) is left *)
(* to Spec: no dispatcher reads what it writes.                             *)

PingMessage(target) == Dumps(Obj([key |-> "PING", target |-> target, value |-> Empty]))

\* a command frame from a publisher that numbers its messages differently
StopFrame == Dumps(Obj([key |-> "STOP", value |-> Empty, id |-> NoId]))

NextDispatch ==
    \/ inputs < MaxInputs /\ HandleMessage(PingMessage(A))
    \/ inputs < MaxInputs /\ PilotInput(A, StopFrame)
    \/ \E id \in IdStrs : PublishSend(id)
    \/ \E id \in IdStrs : PublishArm(id)
    \/ PilotHandleListen(A)
    \/ \E th \in BagToSet(pend[A]) : PilotThread(A, th)
    \/ HandleListen(A)
    \/ LAliveUpdate(A)
    \/ \E v \in AckValues : MRecvdCheck(v)
    \/ \E v \in AckValues : MRecvdDel(v)
    \/ \E v \in AckValues : MRecvdCancel(v)

InitDispatch == InitWith({A})

SpecDispatch == InitDispatch /\ [][NextDispatch]_vars

\* the IOLoop of each node calls the on_recv callback for every payload that
\* waits, and the m_recvd threads are scheduled
MRecvdStep == \E v \in AckValues : MRecvdCheck(v) \/ MRecvdDel(v) \/ MRecvdCancel(v)

FairnessDispatch ==
    /\ WF_vars(HandleListen(A))
    /\ WF_vars(PilotHandleListen(A))
    /\ WF_vars(MRecvdStep)

FairSpecDispatch == SpecDispatch /\ FairnessDispatch

\* C11: whatever handler threads are still running, a payload that waits at
\* the Terminal's listener or at a Pilot's subscriber can be dispatched at
\* once and is eventually dispatched, and the m_recvd threads that were
\* started run to their end, even if the l_alive and l_ping threads started
\* before never take a step.
C11_DispatchNonBlocking ==
    /\ [](\A p \in pilots :
            /\ funnel[p] # <<>> => ENABLED HandleListen(p)
            /\ inbox[p] # <<>> => ENABLED PilotHandleListen(p))
    /\ (funnel[A] # <<>>) ~> (funnel[A] = <<>>)
    /\ (inbox[A] # <<>>) ~> (inbox[A] = <<>>)
    /\ (recvdT # EmptyBag) ~> (recvdT = EmptyBag)

\* the l_alive thread of A's ALIVE and A's l_ping thread for a later PING have
\* not returned, and the RECVD of the same Pilot was dispatched and m_recvd has
\* completed
C11_Witness ==
    /\ BagIn([v |-> A, pc |-> "upd"], aliveT)
    /\ \E id \in IdStrs : RecvdCompleted(id) /\ CopiesIn(<<A, id>>, acks) >= 1
    /\ <<A, "STOP">> \in got

-----------------------------------------------------------------------------
(* Transport failures: send_multipart raises zmq.ZMQError.  Neither publish *)
(* nor p_repeat has a try/except around it, so the exception ends the       *)
(* thread that made the call, before the lines that arm the Timer.          *)

\* line 158 raises: publish() is left through the exception
PublishSendFails(id) ==
    /\ id \in DOMAIN pubT
    /\ pubT[id].pc = "send"
    /\ pubT' = Del(pubT, id)
    /\ errs' = errs \cup {[in |-> "publish", err |-> "ZMQError", of |-> id]}
    /\ UNCHANGED <<termVars, repT, recvdT, aliveT, initT, pilots, pilotVars,
                   tx, wire, rx, got, acks, dead, inputs, hist>>

\* line 315 raises: the Timer thread running p_repeat() ends
PRepeatSendFails(id) ==
    /\ id \in DOMAIN repT
    /\ repT[id].pc = "send"
    /\ repT' = Del(repT, id)
    /\ errs' = errs \cup {[in |-> "p_repeat", err |-> "ZMQError", of |-> id]}
    /\ UNCHANGED <<termVars, pubT, recvdT, aliveT, initT, pilots, pilotVars,
                   tx, wire, rx, got, acks, dead, inputs, hist>>

NextSendFail ==
    \/ Next
    \/ \E id \in IdStrs : PublishSendFails(id)
    \/ \E id \in IdStrs : PRepeatSendFails(id)

SpecSendFail == Init /\ [][NextSendFail]_vars

\* a send of id has raised
SendFailed(id) == \E e \in errs : e.err = "ZMQError" /\ e.of = id

\* C12: after a send of id has failed, as long as its entry is in the outbox
\* a Timer for id is armed, or a thread of publish or p_repeat is on its way
\* to arm one.
C12_SendFailureKeepsCycle ==
    \A id \in IdStrs :
        (SendFailed(id) /\ id \in DOMAIN outbox)
            => (TimerArmed(id) \/ id \in DOMAIN pubT \/ id \in DOMAIN repT)

-----------------------------------------------------------------------------
(* Handler lookup: well-formed envelopes whose key is, or is not, in the    *)
(* table of the dispatcher that receives them.                              *)

\* "BOGUS" is in no table; the other keys are in some other node's table
MessageEnvelopes ==
    {Dumps(Obj([key |-> k, target |-> A, value |-> Empty])) : k \in {"STOP", "BOGUS", "DATA"}}

ListenEnvelopes ==
    {Dumps(Dumps(Obj([key |-> k, target |-> Empty, value |-> Empty]))) :
        k \in {"DATA", "BOGUS", "PING"}}

PilotEnvelopes ==
    {Dumps(Obj([key |-> k, value |-> Empty, id |-> NoId])) : k \in {"STOP", "BOGUS", "ALIVE"}}

NextKeys ==
    \/ \E payload \in MessageEnvelopes : inputs < MaxInputs /\ HandleMessage(payload)
    \/ \E payload \in ListenEnvelopes : inputs < MaxInputs /\ ListenInput(payload)
    \/ \E payload \in PilotEnvelopes : inputs < MaxInputs /\ PilotInput(A, payload)
    \/ PilotHandleListen(A)

InitKeys == InitWith({A})

SpecKeys == InitKeys /\ [][NextKeys]_vars

\* C13: an envelope whose key is not in the dispatcher's table raises nothing:
\* the lookup self.listens[key] / self.messages[key] never ends in KeyError.
C13_UnknownKeyIsDropped ==
    \A e \in errs :
        ~(e.err = "KeyError" /\ e.of \in {<<"listens">>, <<"messages">>})

-----------------------------------------------------------------------------
(* Outbox lifecycle: publish() called by code outside this class with any   *)
(* message dict, complete or not, for Pilot A.                              *)

\* the dicts a caller may pass: with or without 'key', with or without 'value'
AnyEnvelopes == Lacking([key |-> "START", value |-> Empty])

NextLife ==
    \/ \E m \in AnyEnvelopes : SendReliable(A, m)
    \/ \E id \in IdStrs : PublishSend(id)
    \/ \E id \in IdStrs : PublishArm(id)
    \/ \E id \in IdStrs : TimerFire(id)
    \/ \E id \in IdStrs : PRepeatTtl(id)
    \/ \E id \in IdStrs : PRepeatSend(id)
    \/ \E id \in IdStrs : PRepeatArm(id)
    \/ PilotHandleListen(A)
    \/ \E th \in BagToSet(pend[A]) : PilotThread(A, th)
    \/ HandleListen(A)
    \/ \E id \in IdStrs : MRecvdCheck(id)
    \/ \E id \in IdStrs : MRecvdDel(id)
    \/ \E id \in IdStrs : MRecvdCancel(id)

InitLife == InitWith({A})

SpecLife == InitLife /\ [][NextLife]_vars

FairSpecLife == SpecLife /\ Fairness

\* C14: every id in the outbox has a Timer armed, or a thread of publish or
\* p_repeat on its way to arm one, and every id that is in the outbox is
\* eventually out of it.
C14_OutboxLifecycle ==
    /\ [](\A id \in DOMAIN outbox :
            TimerArmed(id) \/ id \in DOMAIN pubT \/ id \in DOMAIN repT)
    /\ \A id \in IdStrs : (id \in DOMAIN outbox) ~> (id \notin DOMAIN outbox)

-----------------------------------------------------------------------------
(* Encodings: the same envelopes reach the Terminal's two receive paths     *)
(* encoded once (json.dumps of the dict) and twice (as Pilot push sends     *)
(* them).  The retry cycle of the ALIVE notification is left to Spec.       *)

Envelopes ==
    {[key |-> "RECVD", target |-> Empty, value |-> v] : v \in AckValues}
        \cup {[key |-> "ALIVE", target |-> Empty, value |-> A]}

Once(d) == Dumps(Obj(d))
Twice(d) == Dumps(Dumps(Obj(d)))

NextEnc ==
    \/ \E d \in Envelopes : inputs < MaxInputs /\ HandleMessage(Once(d))
    \/ \E d \in Envelopes : inputs < MaxInputs /\ HandleMessage(Twice(d))
    \/ \E d \in Envelopes : inputs < MaxInputs /\ ListenInput(Once(d))
    \/ \E d \in Envelopes : inputs < MaxInputs /\ ListenInput(Twice(d))
    \/ LAliveUpdate(A)
    \/ LAlivePublish(A)
    \/ \E id \in IdStrs : PublishSend(id)
    \/ \E id \in IdStrs : PublishArm(id)
    \/ \E v \in AckValues : MRecvdCheck(v)
    \/ \E v \in AckValues : MRecvdDel(v)
    \/ \E v \in AckValues : MRecvdCancel(v)

InitEnc == InitWith({})

SpecEnc == InitEnc /\ [][NextEnc]_vars

-----------------------------------------------------------------------------
\* C16: once m_recvd(id) has completed, no Timer for id is armed, in any
\* state that follows.
C16_NoTimerAfterRecvd ==
    \A id \in IdStrs : RecvdCompleted(id) => ~TimerArmed(id)

-----------------------------------------------------------------------------
\* C17: of the transmissions of one id, the first carries no ttl and the
\* k-th retransmission carries ttl = 6 - k (5, 4, 3, 2, 1 in that order, and
\* no further one); key, target, value and id are those of the first
\* transmission in all of them.
C17_TtlOnWire ==
    \A id \in IdStrs :
        /\ Len(wire[id]) <= 6
        /\ \A j \in 1..Len(wire[id]) :
              LET m == wire[id][j]
                  k == j - 1
              IN  /\ k = 0 => "ttl" \notin DOMAIN m
                  /\ k >= 1 => "ttl" \in DOMAIN m /\ m["ttl"] = 6 - k
                  /\ m["id"] = id
                  /\ \A f \in {"key", "target", "value", "id"} : m[f] = wire[id][1][f]

\* all five retransmissions of a command have been made
C17_Witness ==
    \E id \in IdStrs : Len(wire[id]) = 6 /\ wire[id][6]["ttl"] = 1

-----------------------------------------------------------------------------
\* C18: when the Timer of an id that is not in the outbox fires, p_repeat
\* returns at once: nothing is transmitted or delivered, no thread goes on to
\* arm a Timer, nothing is raised, and the outbox, the registry and the
\* Timers of all other ids are as before.
C18_RepeatOfAbsentIsNoOp ==
    [][\A id \in IdStrs :
         (TimerFire(id) /\ id \notin DOMAIN outbox) =>
             /\ tx' = tx /\ wire' = wire /\ inbox' = inbox
             /\ repT' = repT /\ pubT' = pubT
             /\ outbox' = outbox /\ subscribers' = subscribers
             /\ orphans' = orphans /\ errs' = errs
             /\ DOMAIN timers' = DOMAIN timers
             /\ timers'[id] # "armed"
             /\ \A j \in DOMAIN timers \ {id} : timers'[j] = timers[j]]_vars

\* the Timer of an id fired after its entry was removed by m_recvd, and no
\* p_repeat thread came of it
C18_Witness ==
    \E id \in IdStrs :
        /\ id \in DOMAIN timers /\ timers[id] = "fired"
        /\ id \notin DOMAIN outbox /\ id \notin DOMAIN repT
        /\ RecvdCompleted(id) /\ ~Failed(id)
        /\ \A e \in errs : e.in # "p_repeat"

-----------------------------------------------------------------------------
(* The round structure of m_init: INIT messages that expect Pilot A alone,  *)
(* or A and AB, while only A is connected.                                  *)

RoundLists == {<<A>>, <<A, AB>>}

NextRounds ==
    \/ \E expected \in RoundLists :
          /\ inputs < MaxInputs
          /\ HandleMessage(InitMessage(expected))
    \/ MInitBroadcast
    \/ MInitCheck
    \/ MInitAwol
    \/ MInitPing
    \/ MInitReport
    \/ PilotHandleListen(A)
    \/ \E th \in BagToSet(pend[A]) : PilotThread(A, th)
    \/ HandleListen(A)
    \/ LAliveUpdate(A)
    \/ LAlivePublish(A)
    \/ \E id \in IdStrs : PublishSend(id)
    \/ \E id \in IdStrs : PublishArm(id)

InitRounds == InitWith({A})

SpecRounds == InitRounds /\ [][NextRounds]_vars

\* m_init is one thread, scheduled until it returns; so is each publish
MInitStep == MInitBroadcast \/ MInitCheck \/ MInitAwol \/ MInitPing \/ MInitReport

FairnessRounds ==
    /\ WF_vars(MInitStep)
    /\ \A id \in IdStrs : WF_vars(PublishSend(id)) /\ WF_vars(PublishArm(id))

FairSpecRounds == SpecRounds /\ FairnessRounds

\* what invocation n of m_init has done so far
BPings(n) == {e \in hist : e.ev = "bping" /\ e.n = n}
Checks(n) == {e \in hist : e.ev = "checked" /\ e.n = n}
Rounds(n) == {e \in hist : e.ev = "round" /\ e.n = n}
DPings(n) == {e \in hist : e.ev = "dping" /\ e.n = n}

\* invocation n has left the broadcast loop / has ended directed round k
PastBroadcast(n) == n < initT.n \/ initT.pc # "bcast"
RoundEnded(n, k) == n < initT.n \/ initT.pc \in {"report", "done"} \/ initT.i > k

\* the steps m_init still has before it, at most
StepsLeft(t) ==
    CASE t.pc = "bcast"  -> 300 + (BroadcastRounds - t.i)
      [] t.pc = "round"  -> 100 + 10 * (DirectedRounds - t.i) + 9
      [] t.pc = "ping"   -> 100 + 10 * (DirectedRounds - t.i) + Cardinality(t.todo)
      [] t.pc = "report" -> 10 + Cardinality(t.todo)
      [] OTHER           -> 0

\* m_init waits for an id that the model does not let publish allocate
OutOfIds == initT.pc = "report" /\ initT.todo # {} /\ msg_counter >= MaxMsgs

\* C19: every invocation of m_init sends one broadcast PING in each of
\* exactly 5 rounds; it then has at most 5 directed rounds, and only if the
\* test after the broadcasts found an expected address missing; in each
\* directed round the PINGs go to exactly the expected addresses that were
\* not in the registry when the round began; when nothing was missing there
\* is no directed PING and no DEAD report; and every step of m_init brings
\* it nearer its end, which it reaches.
C19_RoundStructure ==
    /\ [](\A n \in 1..initT.n :
            /\ {e.round : e \in BPings(n)} \subseteq 0..(BroadcastRounds - 1)
            /\ PastBroadcast(n) => Cardinality(BPings(n)) = 5
            /\ Cardinality(Rounds(n)) <= 5
            /\ Rounds(n) # {} => PastBroadcast(n) /\ \E c \in Checks(n) : c.pis \ c.reg # {}
            /\ \A d \in DPings(n) :
                  \E r \in Rounds(n) :
                      r.round = d.round /\ d.to \in r.pis /\ d.to \notin r.reg
            /\ \A r \in Rounds(n) :
                  RoundEnded(n, r.round) =>
                      {d.to : d \in {x \in DPings(n) : x.round = r.round}} = r.pis \ r.reg
            /\ \A c \in Checks(n) :
                  c.pis \ c.reg = {} =>
                      /\ Rounds(n) = {} /\ DPings(n) = {}
                      /\ n = initT.n => \A a \in Names : DeadReports(a) = 0)
    /\ [][(initT.pc \notin {"idle", "done"} /\ initT' # initT)
             => StepsLeft(initT') < StepsLeft(initT)]_vars
    /\ (initT.pc \notin {"idle", "done"}) ~> (initT.pc = "done" \/ OutOfIds)

\* an invocation has ended after 5 broadcast and 5 directed rounds, in one of
\* which an expected address was already registered and another was pinged;
\* another invocation has ended after its broadcasts with nothing missing
C19_Witness ==
    /\ initT.pc = "done"
    /\ \E n \in 1..initT.n :
          /\ Cardinality(BPings(n)) = 5
          /\ Cardinality(Rounds(n)) = 5
          /\ \E r \in Rounds(n) :
                /\ r.pis \cap r.reg # {}
                /\ \E d \in DPings(n) : d.round = r.round /\ d.to \in r.pis \ r.reg
    /\ \E n \in 1..initT.n :
          /\ Cardinality(BPings(n)) = 5
          /\ \E c \in Checks(n) : c.pis \ c.reg = {}

-----------------------------------------------------------------------------
\* C20: the discovery PINGs of m_init, which carry no id, make a Pilot start
\* no RECVD push and raise nothing in its handle_listen.
C20_NoIdNoError ==
    /\ \A p \in Names :
          /\ \A th \in BagToSet(pend[p]) : th.t # "RECVD"
          /\ \A a \in BagToSet(acks) : a[1] # p
    /\ \A e \in errs : e.in # "Pilot.handle_listen"

-----------------------------------------------------------------------------
(* Directed commands: Pilots A and AB are connected and a command is        *)
(* published to AB.  A's SUBSCRIBE filter 'A' is a prefix of the frame      *)
(* 'AB', so the PUB socket hands the frame to A as well.                    *)

NextDirected ==
    \/ \E m \in Commands : SendReliable(AB, m)
    \/ \E id \in IdStrs : PublishSend(id)
    \/ \E id \in IdStrs : PublishArm(id)
    \/ \E id \in IdStrs : TimerFire(id)
    \/ \E id \in IdStrs : PRepeatTtl(id)
    \/ \E id \in IdStrs : PRepeatSend(id)
    \/ \E id \in IdStrs : PRepeatArm(id)
    \/ \E p \in Names : PilotHandleListen(p)
    \/ \E p \in Names : \E th \in BagToSet(pend[p]) : PilotThread(p, th)
    \/ \E p \in Names : HandleListen(p)
    \/ \E id \in IdStrs : MRecvdCheck(id)
    \/ \E id \in IdStrs : MRecvdDel(id)
    \/ \E id \in IdStrs : MRecvdCancel(id)

InitDirected == InitWith({A, AB})

SpecDirected == InitDirected /\ [][NextDirected]_vars

\* C21: when m_recvd removes the entry of a command addressed to one Pilot,
\* that Pilot has dispatched a transmission of its id (started its handler),
\* and the value of the RECVD is the id of that entry and of no other.
C21_AckFromTarget ==
    \A id \in IdStrs : \A p \in Names :
        AckedTo(id, p) =>
            /\ CopiesIn(<<p, id>>, rx) >= 1
            /\ \A k \in 1..Len(wire[id]) : wire[id][k]["id"] = id

-----------------------------------------------------------------------------
(* Observer notifications: discovery together with the retry cycle of the   *)
(* ALIVE and DEAD messages it publishes to 'T'.  Pilot A is connected and   *)
(* answers PINGs; no Pilot's filter matches 'T', so a RECVD for a           *)
(* notification can only come from the local intake.                        *)

NotifyLists == {<<A>>, <<AB>>}

NextNotify ==
    \/ \E expected \in NotifyLists :
          /\ inputs < MaxInputs
          /\ initT.pc = "idle"
          /\ HandleMessage(InitMessage(expected))
    \/ \E v \in IdStrs :
          /\ inputs < MaxInputs
          /\ recvdT = EmptyBag
          /\ HandleMessage(RecvdMessage(v))
    \/ MInitBroadcast
    \/ MInitCheck
    \/ MInitAwol
    \/ MInitPing
    \/ MInitReport
    \/ PilotHandleListen(A)
    \/ \E th \in BagToSet(pend[A]) : PilotThread(A, th)
    \/ HandleListen(A)
    \/ LAliveUpdate(A)
    \/ LAlivePublish(A)
    \/ \E id \in IdStrs : PublishSend(id)
    \/ \E id \in IdStrs : PublishArm(id)
    \/ \E id \in IdStrs : TimerFire(id)
    \/ \E id \in IdStrs : PRepeatTtl(id)
    \/ \E id \in IdStrs : PRepeatSend(id)
    \/ \E id \in IdStrs : PRepeatArm(id)
    \/ \E id \in IdStrs : MRecvdCheck(id)
    \/ \E id \in IdStrs : MRecvdDel(id)
    \/ \E id \in IdStrs : MRecvdCancel(id)

InitNotify == InitWith({A})

SpecNotify == InitNotify /\ [][NextNotify]_vars

\* every started thread is scheduled and every armed Timer fires
RetryStep ==
    \E id \in IdStrs : \/ PublishSend(id) \/ PublishArm(id) \/ TimerFire(id)
                       \/ PRepeatTtl(id) \/ PRepeatSend(id) \/ PRepeatArm(id)

FairnessNotify == WF_vars(RetryStep)

FairSpecNotify == SpecNotify /\ FairnessNotify

\* the ids publish has handed out
Issued == {Str(n) : n \in 0..(msg_counter - 1)}

\* this step puts `message`, stamped with a fresh id and target 'T', in the outbox
NotifiedAs(message) ==
    LET id == Str(msg_counter)
    IN  /\ id \notin Issued
        /\ id \notin DOMAIN outbox
        /\ Issued' = Issued \cup {id}
        /\ outbox' = Put(outbox, id, Put(Put(message, "id", id), "target", T))

-----------------------------------------------------------------------------
(* Timers per message id, under Spec *)

\* the Timer objects of id that are started and have neither fired nor been
\* cancelled: the one stored in self.timers and those it has replaced
ArmedTimers(id) ==
    (IF id \in DOMAIN timers /\ timers[id] = "armed" THEN 1 ELSE 0)
        + CopiesIn(id, orphans)

\* the threads that will still arm a Timer for id or re-send it: a publish
\* that has not returned, a p_repeat that has not returned
Senders(id) ==
    (IF id \in DOMAIN pubT THEN 1 ELSE 0) + (IF id \in DOMAIN repT THEN 1 ELSE 0)

\* C23: at most one Timer is armed per id, and none while a publish or a
\* p_repeat of that id is still running; a Timer of an id is armed only by
\* the publish that issued the id, which has no Timer yet, or by the p_repeat
\* that the firing of its previous Timer started.
C23_OneTimerPerId ==
    /\ [](\A id \in Issued : ArmedTimers(id) + Senders(id) <= 1)
    /\ [](orphans = EmptyBag)
    /\ [][\A id \in Issued :
            ArmedTimers(id)' > ArmedTimers(id) =>
                \/ PublishArm(id) /\ id \notin DOMAIN timers
                \/ PRepeatArm(id) /\ timers[id] = "fired"]_vars

\* the Timer that p_repeat armed after a retransmission is pending
C23_Witness ==
    \E id \in Issued :
        /\ ArmedTimers(id) = 1
        /\ Sent(id) >= 2
        /\ id \in DOMAIN outbox
        /\ "ttl" \in DOMAIN outbox[id]

====
